---- MODULE Spec2Model ----
(***************************************************************************)
(* Model of multilang.py: a dictionary-substitution text codec.            *)
(*                                                                         *)
(* Characters are Unicode code points, strings are sequences of code       *)
(* points, byte strings are sequences of 0..255.  The SQLite table "words" *)
(* is the set of its rows.                                                 *)
(***************************************************************************)
EXTENDS Integers, Sequences, FiniteSets, TLC

VARIABLES
    byteorder,  \* native byte order of the build ("little" or "big")
    words,      \* rows of the table words: [id, word, lang]
    op,         \* the last call: "init", "load", "compress", "decompress"
    entries,    \* load: the lines of the source file, each a sequence of fields
    text,       \* compress: the text argument
    lang,       \* load / compress: the lang argument
    tokens,     \* compress: the token array
    selected,   \* compress: per distinct token, the row fetchone() returned
    ids,        \* compress: the uint16 id array; decompress: the decoded one
    frame,      \* compress: the bytes returned
    data,       \* decompress: the bytes argument
    out,        \* decompress: the string returned
    raised,     \* the exception the last call raised, or "none"
    queries     \* number of execute() calls of the last compress / decompress

vars == <<byteorder, words, op, entries, text, lang, tokens, selected, ids,
          frame, data, out, raised, queries>>

-----------------------------------------------------------------------------
(* Program constants.                                                      *)

EN == 2
ZH == 9
UNSPECIFIED == 65535
IdLimit == 65536

Language == (0..16) \cup {UNSPECIFIED}

(* Characters used by the code and by the inputs below.                    *)
Space == 32
Apostrophe == 39
Pipe == 124
Underscore == 95

-----------------------------------------------------------------------------
(* Bounds of the model.                                                    *)

MaxLines == 2       \* lines per loaded file (store specification)
MaxTextLen == 3     \* characters per text (codec specification)
MaxScriptLen == 3   \* characters per text (tokenizer specification)
MaxEntries == 2     \* idStream entries of a hand-made frame (decoder specification)

-----------------------------------------------------------------------------
(* Sequences.                                                              *)

Range(s) == {s[i] : i \in DOMAIN s}

RECURSIVE Flatten(_)
Flatten(ss) == IF ss = <<>> THEN <<>> ELSE Head(ss) \o Flatten(Tail(ss))

RECURSIVE SeqsUpTo(_, _)
SeqsUpTo(S, n) ==
    IF n = 0 THEN {<<>>}
    ELSE LET shorter == SeqsUpTo(S, n - 1)
         IN  shorter \cup {Append(s, x) : s \in {t \in shorter : Len(t) = n - 1}, x \in S}

(* sep.join(parts) *)
RECURSIVE Join(_, _)
Join(parts, sep) ==
    IF parts = <<>> THEN <<>>
    ELSE IF Len(parts) = 1 THEN parts[1]
    ELSE parts[1] \o <<sep>> \o Join(Tail(parts), sep)

(* s.split(sep): always at least one part; "".split("|") is [""] *)
RECURSIVE Split(_, _)
Split(s, sep) ==
    IF \A i \in DOMAIN s : s[i] # sep THEN <<s>>
    ELSE LET k == CHOOSE i \in DOMAIN s : s[i] = sep /\ \A j \in 1..(i - 1) : s[j] # sep
         IN  <<SubSeq(s, 1, k - 1)>> \o Split(SubSeq(s, k + 1, Len(s)), sep)

(* str.lower(); the inputs of the model hold ASCII letters and caseless    *)
(* CJK / Kana / Hangul characters only.                                    *)
LowerChar(c) == IF c \in 65..90 THEN c + 32 ELSE c

Lower(s) == [i \in DOMAIN s |-> LowerChar(s[i])]

(* int(parts[0]) of a string of decimal digits *)
RECURSIVE ParseInt(_)
ParseInt(s) ==
    IF s = <<>> THEN 0
    ELSE 10 * ParseInt(SubSeq(s, 1, Len(s) - 1)) + (s[Len(s)] - 48)

(* str(n) in decimal, as the f-string formats an id *)
RECURSIVE Decimal(_)
Decimal(n) ==
    IF n < 10 THEN <<48 + n>> ELSE Append(Decimal(n \div 10), 48 + (n % 10))

-----------------------------------------------------------------------------
(* The dictionary store: table words, PRIMARY KEY (id, lang), and a plain  *)
(* (non-unique) index on (word, lang).                                     *)

Row(i, w, l) == [id |-> i, word |-> w, lang |-> l]

(* The generator of load: lines with fewer than two fields are skipped;    *)
(* the first field is the id, the second the word, lowercased.             *)
ParseLines(lines, l) ==
    LET kept == SelectSeq(lines, LAMBDA parts : Len(parts) >= 2)
    IN  [k \in DOMAIN kept |-> Row(ParseInt(kept[k][1]), Lower(kept[k][2]), l)]

(* INSERT OR IGNORE: a row whose key is taken is dropped. *)
InsertOrIgnore(rows, r) ==
    IF \E q \in rows : q.id = r.id /\ q.lang = r.lang THEN rows ELSE rows \cup {r}

(* INSERT OR REPLACE INTO words: the rows that conflict on the primary key *)
(* are deleted, then the row is inserted.                                  *)
InsertOrReplace(rows, r) ==
    {q \in rows : ~(q.id = r.id /\ q.lang = r.lang)} \cup {r}

RECURSIVE ExecuteMany(_, _)
ExecuteMany(rows, params) ==
    IF params = <<>> THEN rows
    ELSE ExecuteMany(InsertOrReplace(rows, Head(params)), Tail(params))

ApplyLoad(rows, lines, l) == ExecuteMany(rows, ParseLines(lines, l))

(* SELECT id FROM words WHERE word = ? AND lang = ? : the matching rows.   *)
(* fetchone() returns one of them, SQL does not say which, or None.        *)
SelectByWord(rows, w, l) == {q \in rows : q.word = w /\ q.lang = l}

(* SELECT id, word FROM words WHERE id = ? AND lang = ? *)
SelectById(rows, i, l) == {q \in rows : q.id = i /\ q.lang = l}

-----------------------------------------------------------------------------
(* UTF-8.                                                                  *)

(* str.encode('utf-8') of one character (no surrogates among the inputs) *)
Utf8Char(c) ==
    IF c < 128 THEN <<c>>
    ELSE IF c < 2048 THEN <<192 + (c \div 64), 128 + (c % 64)>>
    ELSE IF c < 65536
         THEN <<224 + (c \div 4096), 128 + ((c \div 64) % 64), 128 + (c % 64)>>
    ELSE <<240 + (c \div 262144), 128 + ((c \div 4096) % 64),
           128 + ((c \div 64) % 64), 128 + (c % 64)>>

Utf8Encode(s) == Flatten([i \in DOMAIN s |-> Utf8Char(s[i])])

(* Length of the sequence a lead byte announces; 0 for an invalid start byte *)
Utf8Need(b0) ==
    IF b0 \in 194..223 THEN 2
    ELSE IF b0 \in 224..239 THEN 3
    ELSE IF b0 \in 240..244 THEN 4
    ELSE 0

(* Is byte k (k >= 2) a valid continuation of a sequence led by b0? *)
Utf8Cont(b0, k, x) ==
    IF k = 2 /\ b0 = 224 THEN x \in 160..191
    ELSE IF k = 2 /\ b0 = 237 THEN x \in 128..159
    ELSE IF k = 2 /\ b0 = 240 THEN x \in 144..191
    ELSE IF k = 2 /\ b0 = 244 THEN x \in 128..143
    ELSE x \in 128..191

(* The decoder's next step on a non-empty byte string: the character read  *)
(* and the bytes consumed, or the extent of the error (an invalid start    *)
(* byte: 1; an invalid continuation byte: the bytes before it; the data    *)
(* ends inside a sequence: the rest).                                      *)
Utf8Step(b) ==
    LET b0 == b[1]
        need == Utf8Need(b0)
        stop == {k \in 2..need : k > Len(b) \/ ~Utf8Cont(b0, k, b[k])}
        first == CHOOSE k \in stop : \A j \in stop : k <= j
        tail(k) == b[k] % 64
    IN  IF b0 < 128 THEN [ok |-> TRUE, cp |-> b0, len |-> 1]
        ELSE IF need = 0 THEN [ok |-> FALSE, cp |-> 0, len |-> 1]
        ELSE IF stop # {}
             THEN [ok |-> FALSE, cp |-> 0,
                   len |-> IF first > Len(b) THEN Len(b) ELSE first - 1]
        ELSE IF need = 2 THEN [ok |-> TRUE, cp |-> (b0 % 32) * 64 + tail(2), len |-> 2]
        ELSE IF need = 3
             THEN [ok |-> TRUE, cp |-> (b0 % 16) * 4096 + tail(2) * 64 + tail(3), len |-> 3]
        ELSE [ok |-> TRUE,
              cp |-> (b0 % 8) * 262144 + tail(2) * 4096 + tail(3) * 64 + tail(4),
              len |-> 4]

(* bytes.decode('utf-8'): chars is the result with errors='ignore', ok says *)
(* whether the strict decoder returns (it raises UnicodeDecodeError if not) *)
RECURSIVE Utf8Decode(_)
Utf8Decode(b) ==
    IF b = <<>> THEN [ok |-> TRUE, chars |-> <<>>]
    ELSE LET st == Utf8Step(b)
             rest == Utf8Decode(SubSeq(b, st.len + 1, Len(b)))
         IN  [ok |-> st.ok /\ rest.ok,
              chars |-> IF st.ok THEN <<st.cp>> \o rest.chars ELSE rest.chars]

-----------------------------------------------------------------------------
(* Integers in bytes.                                                      *)

(* int.to_bytes(4, 'big') *)
ToBytes4(n) ==
    <<(n \div 16777216) % 256, (n \div 65536) % 256, (n \div 256) % 256, n % 256>>

(* int.from_bytes(data[1:5], 'big') *)
FromBytes4(b) == ((b[1] * 256 + b[2]) * 256 + b[3]) * 256 + b[4]

(* One uint16 in the given byte order *)
Pack16(v, order) ==
    IF order = "big" THEN <<v \div 256, v % 256>> ELSE <<v % 256, v \div 256>>

Unpack16(hi, lo, order) == IF order = "big" THEN hi * 256 + lo ELSE lo * 256 + hi

(* ndarray.tobytes() of a big-endian array *)
ToBytesBig(idlist, order) == Flatten([i \in DOMAIN idlist |-> Pack16(idlist[i], "big")])

(* ndarray.tobytes() of a uint16 array: native byte order *)
ToBytes(idlist, order) == Flatten([i \in DOMAIN idlist |-> Pack16(idlist[i], order)])

(* A decoder that reads the entries high byte first on every build *)
FromBufferBig(packed, order) ==
    [k \in 1..(Len(packed) \div 2) |-> Unpack16(packed[2 * k - 1], packed[2 * k], "big")]

(* np.frombuffer(packed, dtype=np.uint16): native byte order; the length   *)
(* of packed is even (the caller raises ValueError otherwise)              *)
FromBuffer(packed, order) ==
    [k \in 1..(Len(packed) \div 2) |-> Unpack16(packed[2 * k - 1], packed[2 * k], order)]

-----------------------------------------------------------------------------
(* The tokenizer: re.findall(r"[\w']+|[\u4e00-\u9fff]|[\u3040-\u309f]|        *)
(* [\u30a0-\u30ff]|[\uac00-\ud7af]", text, re.UNICODE), each match           *)
(* lowercased.                                                             *)

(* [\w'] under re.UNICODE, for ASCII and the four blocks of the pattern:   *)
(* letters, digits, underscore, apostrophe; every CJK ideograph; the       *)
(* Hiragana, Katakana and Hangul letters (not the marks, the punctuation   *)
(* or the unassigned positions of their blocks).                           *)
IsWordChar(c) ==
    \/ c = Apostrophe \/ c = Underscore
    \/ c \in 48..57 \/ c \in 65..90 \/ c \in 97..122
    \/ c \in 19968..40959
    \/ c \in 12353..12438 \/ c \in 12445..12447
    \/ c \in 12449..12538 \/ c \in 12540..12543
    \/ c \in 44032..55203

(* The four single-character alternatives of the pattern *)
IsBlockChar(c) ==
    \/ c \in 19968..40959
    \/ c \in 12352..12447
    \/ c \in 12448..12543
    \/ c \in 44032..55215

(* End of the maximal run of word characters that starts at i *)
RunEnd(s, i) ==
    CHOOSE j \in i..Len(s) :
        /\ \A k \in i..j : IsWordChar(s[k])
        /\ (j = Len(s) \/ ~IsWordChar(s[j + 1]))

RECURSIVE FindAll(_, _)
FindAll(s, i) ==
    IF i > Len(s) THEN <<>>
    ELSE IF IsWordChar(s[i])
         THEN <<SubSeq(s, i, RunEnd(s, i))>> \o FindAll(s, RunEnd(s, i) + 1)
    ELSE IF IsBlockChar(s[i]) THEN <<<<s[i]>>>> \o FindAll(s, i + 1)
    ELSE FindAll(s, i + 1)

Tokenize(s) == LET found == FindAll(s, 1) IN [k \in DOMAIN found |-> Lower(found[k])]

-----------------------------------------------------------------------------
(* compress                                                                *)

(* cursor.execute(...).fetchone(): None (the empty set) or one of the rows *)
FetchOne(rows) == IF rows = {} THEN {{}} ELSE {{q} : q \in rows}

TheRow(one) == CHOOSE q \in one : TRUE

(* What the word queries of one compress call can return, per distinct token *)
WordSelections(rows, uniq, l) ==
    {sel \in [uniq -> SUBSET rows] :
        \A t \in uniq : sel[t] \in FetchOne(SelectByWord(rows, t, l))}

(* The dict comprehension without the test row[0] < 65536 *)
WordLookupUnlimited(sel) ==
    [t \in {u \in DOMAIN sel : sel[u] # {}} |-> TheRow(sel[t]).id]

(* lookup = {token: row[0] ... if row and row[0] < 65536} *)
WordLookup(sel) ==
    [t \in {u \in DOMAIN sel : sel[u] # {} /\ TheRow(sel[u]).id < IdLimit}
        |-> TheRow(sel[t]).id]

(* [lookup.get(token, Language.UNSPECIFIED) for token in tokens] *)
BuildIds(toks, lookup) ==
    [i \in DOMAIN toks |->
        IF toks[i] \in DOMAIN lookup THEN lookup[toks[i]] ELSE UNSPECIFIED]

(* tokens[missing] *)
MissingTokens(toks, idlist) ==
    LET pos == SelectSeq([i \in DOMAIN toks |-> i], LAMBDA i : idlist[i] = UNSPECIFIED)
    IN  [k \in DOMAIN pos |-> toks[pos[k]]]

(* The bytes compress returns for a non-empty token array; lang is one    *)
(* byte (the inputs are languages 1..16)                                   *)
PackFrame(toks, idlist, l, order) ==
    LET packed == ToBytes(idlist, order)
        head == <<l>> \o ToBytes4(Len(packed)) \o packed
    IN  IF \E i \in DOMAIN idlist : idlist[i] = UNSPECIFIED
        THEN head \o <<0>> \o Utf8Encode(Join(MissingTokens(toks, idlist), Pipe))
        ELSE head

Compress(t, l) ==
    LET toks == Tokenize(t)
        uniq == Range(toks)
    IN  /\ op' = "compress"
        /\ text' = t
        /\ lang' = l
        /\ tokens' = toks
        /\ IF toks = <<>>
           THEN /\ selected' = <<>>
                /\ ids' = <<>>
                /\ queries' = 0
                /\ raised' = "none"
                /\ frame' = <<l>> \o <<0, 0, 0, 0>>
           ELSE \E sel \in WordSelections(words, uniq, l) :
                LET idlist == BuildIds(toks, WordLookup(sel))
                    fits == \A i \in DOMAIN idlist : idlist[i] \in 0..65535
                IN  /\ selected' = sel
                    /\ queries' = Cardinality(uniq)
                    /\ ids' = IF fits THEN idlist ELSE <<>>
                    /\ raised' = IF fits THEN "none" ELSE "OverflowError"
                    /\ frame' = IF fits THEN PackFrame(toks, idlist, l, byteorder) ELSE <<>>
        /\ entries' = <<>>
        /\ data' = <<>>
        /\ out' = <<>>
        /\ UNCHANGED <<byteorder, words>>

-----------------------------------------------------------------------------
(* decompress                                                              *)

Missing == <<91, 77, 73, 83, 83, 73, 78, 71, 93>>              \* "[MISSING]"

MissingId(i) == <<91, 77, 73, 83, 83, 73, 78, 71, 58>> \o Decimal(i) \o <<93>>

(* data.find(b'\x00', start) as a 1-based position, 0 for -1 *)
FindZero(d, start) ==
    LET hits == {p \in (start + 1)..Len(d) : d[p] = 0}
    IN  IF hits = {} THEN 0 ELSE CHOOSE p \in hits : \A q \in hits : p <= q

(* The list unspec iterates over *)
Unspec(d, length) ==
    LET separator == FindZero(d, 5 + length)
    IN  IF separator # 0 /\ separator < Len(d)
        THEN Split(Utf8Decode(SubSeq(d, separator + 1, Len(d))).chars, Pipe)
        ELSE <<>>

(* What the id queries of one decompress call can return, per distinct id  *)
(* of the frame's language                                                 *)
IdSelections(rows, uniq, l) ==
    {sel \in [uniq -> SUBSET rows] :
        \A v \in uniq : sel[v] \in FetchOne(SelectById(rows, v, l))}

(* lookup = {int(row[0]): row[1] ... if row} *)
IdLookup(sel) ==
    LET found == {TheRow(sel[v]) : v \in {u \in DOMAIN sel : sel[u] # {}}}
    IN  [i \in {q.id : q \in found} |-> (CHOOSE q \in found : q.id = i).word]

(* A generator that reads the first literal again and again *)
RECURSIVE EmitFirst(_, _, _)
EmitFirst(idlist, unspec, lookup) ==
    IF idlist = <<>> THEN <<>>
    ELSE IF Head(idlist) = UNSPECIFIED
         THEN <<IF unspec # <<>> THEN Head(unspec) ELSE Missing>>
              \o EmitFirst(Tail(idlist), unspec, lookup)
    ELSE <<IF Head(idlist) \in DOMAIN lookup THEN lookup[Head(idlist)]
           ELSE MissingId(Head(idlist))>>
         \o EmitFirst(Tail(idlist), unspec, lookup)

(* The generator handed to ' '.join: unspec is consumed in order *)
RECURSIVE Emit(_, _, _)
Emit(idlist, unspec, lookup) ==
    IF idlist = <<>> THEN <<>>
    ELSE IF Head(idlist) = UNSPECIFIED
         THEN <<IF unspec # <<>> THEN Head(unspec) ELSE Missing>>
              \o Emit(Tail(idlist), IF unspec # <<>> THEN Tail(unspec) ELSE <<>>, lookup)
    ELSE <<IF Head(idlist) \in DOMAIN lookup THEN lookup[Head(idlist)]
           ELSE MissingId(Head(idlist))>>
         \o Emit(Tail(idlist), unspec, lookup)

Returns(s, idlist, n) ==
    /\ out' = s
    /\ raised' = "none"
    /\ ids' = idlist
    /\ queries' = n

Raises(e) ==
    /\ out' = <<>>
    /\ raised' = e
    /\ ids' = <<>>
    /\ queries' = 0

Decompress(d) ==
    /\ op' = "decompress"
    /\ data' = d
    /\ IF Len(d) < 5 THEN Returns(<<>>, <<>>, 0)
       ELSE LET length == FromBytes4(SubSeq(d, 2, 5))
                rest == Utf8Decode(SubSeq(d, 6, Len(d)))
                packed == SubSeq(d, 6, IF 5 + length < Len(d) THEN 5 + length ELSE Len(d))
                unspec == Unspec(d, length)
            IN  IF length = 0
                THEN IF Len(d) > 5
                     THEN IF rest.ok THEN Returns(Join(Split(rest.chars, Pipe), Space), <<>>, 0)
                          ELSE Raises("UnicodeDecodeError")
                     ELSE Returns(<<>>, <<>>, 0)
                ELSE IF d[1] \notin Language THEN Raises("ValueError")
                ELSE IF Len(packed) % 2 # 0 THEN Raises("ValueError")
                ELSE LET idlist == FromBuffer(packed, byteorder)
                         uniq == Range(idlist) \ {UNSPECIFIED}
                     IN  \E sel \in IdSelections(words, uniq, d[1]) :
                            Returns(Join(Emit(idlist, unspec, IdLookup(sel)), Space),
                                    idlist, Cardinality(uniq))
    /\ UNCHANGED <<byteorder, words, entries, text, lang, tokens, selected, frame>>

-----------------------------------------------------------------------------
(* Inputs of the store specification.                                      *)

Digits10 == <<49, 48>>
Digits11 == <<49, 49>>
WordA == <<97>>
WordUpperA == <<65>>
WordB == <<98>>

StoreLines ==
    {<<Digits10>>, <<Digits10, WordUpperA>>, <<Digits11, WordUpperA>>,
     <<Digits11, WordB, WordA>>}

StoreFiles == SeqsUpTo(StoreLines, MaxLines)

Langs == {EN, ZH}

-----------------------------------------------------------------------------
Init ==
    /\ byteorder \in {"little", "big"}
    /\ words = {}
    /\ op = "init"
    /\ entries = <<>>
    /\ text = <<>>
    /\ lang = EN
    /\ tokens = <<>>
    /\ selected = <<>>
    /\ ids = <<>>
    /\ frame = <<>>
    /\ data = <<>>
    /\ out = <<>>
    /\ raised = "none"
    /\ queries = 0

(* load(source, lang) on a file holding these lines *)
Load(lines, l) ==
    /\ words' = ApplyLoad(words, lines, l)
    /\ op' = "load"
    /\ entries' = lines
    /\ lang' = l
    /\ text' = <<>>
    /\ tokens' = <<>>
    /\ selected' = <<>>
    /\ ids' = <<>>
    /\ frame' = <<>>
    /\ data' = <<>>
    /\ out' = <<>>
    /\ raised' = "none"
    /\ queries' = 0
    /\ UNCHANGED byteorder

LoadFile == \E lines \in StoreFiles, l \in Langs : Load(lines, l)

(* compress and decompress only read the table, so what a call returns     *)
(* does not depend on the codec calls made before it.  The specifications  *)
(* below take each codec call from the state Init or the last load left;   *)
(* the calls reach the same states from anywhere else.                     *)
Idle == op \in {"init", "load"}

NextStore == LoadFile

SpecStore == Init /\ [][NextStore]_vars

-----------------------------------------------------------------------------
(* The main specification: dictionaries are loaded, texts are compressed  *)
(* and the frame compress returned is decompressed.                        *)

Digits2560 == <<50, 53, 54, 48>>
Digits65535 == <<54, 53, 53, 51, 53>>
Digits65536 == <<54, 53, 53, 51, 54>>

(* Word files and the language each is loaded for.  In EN "a" gets the ids *)
(* 10 and 65536 and "b" the ids 11 and 65535; id 10 is "b" in ZH.          *)
CodecFiles ==
    {<<EN, <<<<Digits10, WordUpperA>>, <<Digits11, WordB>>>>>>,
     <<EN, <<<<Digits65536, WordUpperA>>>>>>,
     <<EN, <<<<Digits65535, WordB>>>>>>,
     <<ZH, <<<<Digits10, WordB>>>>>>}

(* a, B, space, '|' and the CJK ideograph U+4E2D *)
CodecAlphabet == {97, 66, Space, Pipe, 20013}

CodecTexts == SeqsUpTo(CodecAlphabet, MaxTextLen)

LoadDictionary == \E f \in CodecFiles : Load(f[2], f[1])

CompressText == Idle /\ \E t \in CodecTexts, l \in Langs : Compress(t, l)

DecompressFrame == op = "compress" /\ raised = "none" /\ Decompress(frame)

Next == LoadDictionary \/ CompressText \/ DecompressFrame

Spec == Init /\ [][Next]_vars

-----------------------------------------------------------------------------
(* The tokenizer specification: texts in several scripts are compressed.   *)

(* a, CJK ideograph U+4E2D, Hiragana U+3042, Katakana middle dot U+30FB,   *)
(* Hangul syllable U+D55C, space                                           *)
ScriptAlphabet == {97, 20013, 12354, 12539, 54620, Space}

ScriptTexts == SeqsUpTo(ScriptAlphabet, MaxScriptLen)

CompressScript == Idle /\ \E t \in ScriptTexts : Compress(t, ZH)

NextTokens == CompressScript

SpecTokens == Init /\ [][NextTokens]_vars

-----------------------------------------------------------------------------
(* The decoder specification: byte strings from anywhere are decompressed. *)

DecoderFiles ==
    {<<EN, <<<<Digits10, WordUpperA>>>>>>,
     <<EN, <<<<Digits2560, WordB>>>>>>}

(* idStreams as the frame format writes them: big-endian entries *)
FrameStreams ==
    {ToBytesBig(e, "big") : e \in SeqsUpTo({10, 2560, UNSPECIFIED}, MaxEntries)}

(* What follows the idStream: nothing, a marker alone, literals "a",       *)
(* "a|b", a stray byte before the marker, an invalid byte, an empty pair   *)
FrameTails ==
    {<<>>, <<0>>, <<0, 97>>, <<0, 97, Pipe, 98>>, <<97, 0, 98>>, <<0, 255>>, <<0, Pipe>>}

FrameLangs == {EN, 17}

(* Frames with idLength the length of their idStream *)
Frames ==
    {<<l>> \o ToBytes4(Len(st)) \o st \o tl :
        l \in FrameLangs, st \in FrameStreams, tl \in FrameTails}

(* Truncated input, an odd idLength, an idLength past the end, and text    *)
(* after idLength = 0                                                      *)
OddFrames ==
    {<<>>, <<EN, 0, 0, 0>>, <<EN, 0, 0, 0, 1, 10>>, <<EN, 0, 0, 0, 3, 0, 10, 0>>,
     <<EN, 0, 0, 0, 4, 0, 10>>, <<EN, 0, 0, 0, 2>>, <<17, 0, 0, 0, 0, 97, Pipe, 98>>,
     <<EN, 0, 0, 0, 0, 255>>}

LoadDecoderDictionary == \E f \in DecoderFiles : Load(f[2], f[1])

DecompressBytes == Idle /\ \E d \in Frames \cup OddFrames : Decompress(d)

NextDecoder == LoadDecoderDictionary \/ DecompressBytes

SpecDecoder == Init /\ [][NextDecoder]_vars

-----------------------------------------------------------------------------
(* Properties.                                                             *)

(* The state after decompress(compress(text, lang)) *)
RoundTrip == op = "decompress" /\ frame # <<>> /\ data = frame

(* idLength of a byte string of at least 5 bytes *)
IdLength(d) == FromBytes4(SubSeq(d, 2, 5))

(* The idStream entries of the frame compress returned that are FF FF *)
SentinelPositions ==
    SelectSeq([i \in DOMAIN tokens |-> i],
              LAMBDA i : frame[4 + 2 * i] = 255 /\ frame[5 + 2 * i] = 255)

(* The '|'-separated literals of the frame compress returned *)
FrameLiterals ==
    LET n == Len(tokens)
    IN  IF Len(frame) > 6 + 2 * n /\ frame[6 + 2 * n] = 0
        THEN Split(Utf8Decode(SubSeq(frame, 7 + 2 * n, Len(frame))).chars, Pipe)
        ELSE <<>>

(* The tokens of the string decompress returned *)
OutTokens == IF out = <<>> THEN <<>> ELSE Split(out, Space)

(* How many of the first i entries are the sentinel *)
SentinelRank(idlist, i) == Cardinality({j \in 1..i : idlist[j] = UNSPECIFIED})

(* C1: for every dictionary the loads reach, every language 1..16 and every *)
(* text whose tokens all have an entry for the language,                    *)
(* decompress(compress(text, lang)) is the lowercased tokens of the text in *)
(* order, joined by single spaces (the empty string without tokens).        *)
C1_RoundTripCovered ==
    (/\ RoundTrip
     /\ lang \in 1..16
     /\ \A i \in DOMAIN tokens : SelectByWord(words, tokens[i], lang) # {})
    => /\ raised = "none"
       /\ out = Join(Tokenize(text), Space)

C1_Witness ==
    /\ RoundTrip
    /\ \A i \in DOMAIN tokens : SelectByWord(words, tokens[i], lang) # {}
    /\ Len(tokens) = 2 /\ tokens[1] # tokens[2]
    /\ text # Lower(text)
    /\ \E i \in DOMAIN ids : ids[i] # UNSPECIFIED
    /\ out = Join(tokens, Space)

(* A token with no row for the language of the last compress *)
OutOfDictionary(i) == SelectByWord(words, tokens[i], lang) = {}

(* A token the last compress found no usable id for: no row, or a row     *)
(* whose id is 65535 or more                                               *)
Unresolved(i) ==
    \/ selected[tokens[i]] = {}
    \/ TheRow(selected[tokens[i]]).id >= UNSPECIFIED

(* Positions 1..n that satisfy P, in order *)
Positions(P(_)) == SelectSeq([i \in DOMAIN tokens |-> i], P)

(* The literals travel in order: the k-th position of pos is the k-th     *)
(* sentinel and its token the k-th literal, and every token comes back at *)
(* its position                                                           *)
LiteralsInOrder(pos) ==
    /\ raised = "none"
    /\ OutTokens = tokens
    /\ \A k \in DOMAIN pos :
          /\ k <= Len(FrameLiterals) /\ FrameLiterals[k] = tokens[pos[k]]
          /\ k <= Len(SentinelPositions) /\ SentinelPositions[k] = pos[k]

(* C2 as stated: with at least one token out of dictionary, every such    *)
(* token comes back at its position, the k-th of them as the k-th literal *)
(* at the k-th sentinel, and the in-dictionary tokens keep their places.  *)
C2_AsStated ==
    (RoundTrip /\ \E i \in DOMAIN tokens : OutOfDictionary(i))
    => LiteralsInOrder(Positions(OutOfDictionary))

(* C2, amended: with at least one token compress found no usable id for   *)
(* (no row, or a looked-up id of 65535 or more), every such token comes   *)
(* back at its position, the k-th of them as the k-th literal at the k-th *)
(* sentinel, and the tokens written by id keep their places.              *)
C2_LiteralsRoundTrip ==
    (RoundTrip /\ \E i \in DOMAIN tokens : Unresolved(i))
    => LiteralsInOrder(Positions(Unresolved))

C2_Witness ==
    /\ RoundTrip
    /\ Len(tokens) = 2 /\ tokens[1] # tokens[2]
    /\ Unresolved(1) /\ Unresolved(2)
    /\ OutOfDictionary(2) /\ ~OutOfDictionary(1)
    /\ OutTokens = tokens

(* C3: the frame of a text with n >= 1 tokens is the language byte, 2n as *)
(* 4 big-endian bytes, then each id high byte first.                      *)
C3_BigEndianIds ==
    (op = "compress" /\ tokens # <<>> /\ raised = "none")
    => SubSeq(frame, 1, 5 + 2 * Len(tokens))
         = <<lang>> \o ToBytes4(2 * Len(tokens)) \o ToBytesBig(ids, "big")

(* C4: every character of the CJK, Hiragana, Katakana and Hangul ranges   *)
(* is a token of its own, never part of a longer token.                   *)
C4_BlockCharsAlone ==
    op = "compress"
    => \A k \in DOMAIN tokens :
          (\E i \in DOMAIN tokens[k] : IsBlockChar(tokens[k][i])) => Len(tokens[k]) = 1

(* C5: compress never raises on an oversize id; a token whose looked-up   *)
(* id is 65536 or more is written as an absent one (the sentinel at its   *)
(* position, the token among the literals), and every other value of the  *)
(* idStream is the id, below 65536, of a row of that token and language.  *)
C5_OversizeIsAbsent ==
    op = "compress"
    => /\ raised = "none"
       /\ \A i \in DOMAIN tokens :
             /\ (selected[tokens[i]] = {} \/ TheRow(selected[tokens[i]]).id >= IdLimit)
                => /\ ids[i] = UNSPECIFIED
                   /\ frame[4 + 2 * i] = 255 /\ frame[5 + 2 * i] = 255
                   /\ SentinelRank(ids, i) <= Len(FrameLiterals)
                   /\ FrameLiterals[SentinelRank(ids, i)] = tokens[i]
             /\ ids[i] # UNSPECIFIED
                => /\ ids[i] < IdLimit
                   /\ Row(ids[i], tokens[i], lang) \in words
                   /\ <<frame[4 + 2 * i], frame[5 + 2 * i]>> = Pack16(ids[i], byteorder)

C5_Witness ==
    /\ op = "compress" /\ raised = "none"
    /\ Len(tokens) = 2
    /\ selected[tokens[1]] # {} /\ TheRow(selected[tokens[1]]).id >= IdLimit
    /\ ids[1] = UNSPECIFIED
    /\ ids[2] # UNSPECIFIED

(* C6: no two rows of one language carry the same word with two ids.      *)
C6_OneIdPerWord ==
    \A q \in words, r \in words : (q.word = r.word /\ q.lang = r.lang) => q.id = r.id

(* A byte string of at least 5 bytes with an even idLength, its idStream  *)
(* present, and valid UTF-8 after it                                      *)
WellFormed(d) ==
    /\ Len(d) >= 5
    /\ d[1] \in 0..255
    /\ IdLength(d) % 2 = 0
    /\ Len(d) >= 5 + IdLength(d)
    /\ Utf8Decode(SubSeq(d, 6 + IdLength(d), Len(d))).ok

(* C7: decompress returns a string, and raises nothing, on every          *)
(* well-formed frame, whatever its language byte.                         *)
C7_NeverRaises == (op = "decompress" /\ WellFormed(data)) => raised = "none"

(* The rows the last load parsed *)
Loaded == ParseLines(entries, lang)

(* C8: loading the same entries again changes no row, and each key loaded *)
(* holds exactly one row, with the lowercased word of its last entry.     *)
C8_LoadIdempotent ==
    op = "load"
    => /\ ApplyLoad(words, entries, lang) = words
       /\ \A q \in words, r \in words : (q.id = r.id /\ q.lang = r.lang) => q = r
       /\ \A k \in DOMAIN Loaded :
             (\A j \in DOMAIN Loaded : j > k => Loaded[j].id # Loaded[k].id)
             => SelectById(words, Loaded[k].id, lang) = {Loaded[k]}

C8_Witness ==
    /\ op = "load"
    /\ \E j \in DOMAIN Loaded, k \in DOMAIN Loaded :
          j < k /\ Loaded[j].id = Loaded[k].id /\ Loaded[j].word # Loaded[k].word
    /\ \E q \in words : q.lang # lang
    /\ \E k \in DOMAIN entries : entries[k][2] # Lower(entries[k][2])

(* What the k-th entry of the decoded idStream stands for *)
Expected(idlist, unspec, l, k) ==
    IF idlist[k] = UNSPECIFIED
    THEN IF SentinelRank(idlist, k) <= Len(unspec)
         THEN unspec[SentinelRank(idlist, k)] ELSE Missing
    ELSE IF SelectById(words, idlist[k], l) # {}
         THEN TheRow(SelectById(words, idlist[k], l)).word
    ELSE MissingId(idlist[k])

(* C9: on a frame with idLength > 0, decompress returns one token per     *)
(* entry, in order and joined by single spaces: the k-th sentinel gives   *)
(* the k-th literal or [MISSING], another entry the word of its id for    *)
(* the frame's language or [MISSING:<id>].                                *)
C9_OneTokenPerEntry ==
    (op = "decompress" /\ WellFormed(data) /\ IdLength(data) > 0)
    => LET idlist == FromBuffer(SubSeq(data, 6, 5 + IdLength(data)), byteorder)
           unspec == Unspec(data, IdLength(data))
       IN  /\ raised = "none"
           /\ out = Join([k \in DOMAIN idlist |-> Expected(idlist, unspec, data[1], k)],
                         Space)

(* C10: a compress of a text with tokens, and a decompress of a frame     *)
(* with idLength > 0, each issue exactly one query.                       *)
C10_OneQuery ==
    /\ (op = "compress" /\ tokens # <<>>) => queries = 1
    /\ (op = "decompress" /\ Len(data) >= 5 /\ IdLength(data) > 0 /\ raised = "none")
       => queries = 1

====
